---------------------------- MODULE Spec2Model ----------------------------
(***************************************************************************)
(* Operation-to-tool compiler of medusa-mcp: MedusaAdminService            *)
(* (src/src/services/medusa-admin.ts) and MedusaStoreService               *)
(* (src/unnamed/part_000).                                                 *)
(*                                                                         *)
(* JavaScript strings are sequences of tokens (a token is an atomic run of *)
(* characters), so that String.prototype.replace, template literals and    *)
(* String(value) are modelled by what they do to the text.                 *)
(* A JavaScript value is a record [k, v, e]: k its type tag, v its text    *)
(* (string contents, a number's digits), e its elements when an array.     *)
(* An object (the catalog, a descriptor, a handler input, a request) is a  *)
(* function from its own keys; an absent key is a key not in DOMAIN.       *)
(***************************************************************************)
EXTENDS Integers, Sequences, FiniteSets, TLC

VARIABLES
    surface,        \* which service class the instance is: "admin" | "store"
    env,            \* process.env.PUBLISHABLE_KEY (a string value or undefined)
    catalog,        \* the catalog handed to defineTools: sequence of [path, ops]
    arg,            \* the input object a caller is about to pass to a handler
    tools,          \* outcome of the last defineTools call
    wrapped,        \* outcome of the last direct wrapPath call
    adminToken,     \* MedusaAdminService.adminToken
    loginPending,   \* init() calls suspended at sdk.auth.login
    loginReturned,  \* results sdk.auth.login has delivered so far, in order
    inits,          \* init() calls started so far
    calls           \* handler invocations: [tool, input, req, seen, status]

vars == <<surface, env, catalog, arg, tools, wrapped, adminToken,
          loginPending, loginReturned, inits, calls>>

-----------------------------------------------------------------------------
(* Bounds of the model *)

MaxCalls == 2
MaxInits == 1
MaxArrLen == 2
MaxRoutes == 2

-----------------------------------------------------------------------------
(* JavaScript values and strings *)

Undef == [k |-> "undefined", v |-> <<>>, e |-> <<>>]
Null == [k |-> "null", v |-> <<>>, e |-> <<>>]
StrV(s) == [k |-> "string", v |-> s, e |-> <<>>]
NumV(digits) == [k |-> "number", v |-> digits, e |-> <<>>]
ArrV(es) == [k |-> "array", v |-> <<>>, e |-> es]
ObjV == [k |-> "object", v |-> <<>>, e |-> <<>>]

\* input[key] of a JavaScript object: undefined when the key is absent
Get(obj, key) == IF key \in DOMAIN obj THEN obj[key] ELSE Undef

\* value !== undefined && value !== null
IsNullish(val) == val.k \in {"undefined", "null"}

\* String(v) of a value that is not an array
ScalarString(val) ==
    CASE val.k = "string" -> val.v
      [] val.k = "number" -> val.v
      [] val.k = "null" -> <<"null">>
      [] val.k = "undefined" -> <<"undefined">>
      [] OTHER -> <<"[object Object]">>

\* Array.prototype.join(","): null and undefined elements give the empty string
RECURSIVE JoinElems(_)
JoinElems(es) ==
    IF es = <<>> THEN <<>>
    ELSE LET h == IF IsNullish(es[1]) THEN <<>> ELSE ScalarString(es[1])
         IN IF Len(es) = 1 THEN h ELSE h \o <<",">> \o JoinElems(Tail(es))

\* String(value)
String(val) == IF val.k = "array" THEN JoinElems(val.e) ELSE ScalarString(val)

-----------------------------------------------------------------------------
(* String.prototype.replace(pattern, replacement) with a string pattern *)

\* index of the first occurrence of pat in s, 0 when there is none
IndexOf(s, pat) ==
    LET hits == {i \in 1..(Len(s) - Len(pat) + 1) :
                    SubSeq(s, i, i + Len(pat) - 1) = pat}
    IN IF hits = {} THEN 0 ELSE CHOOSE i \in hits : \A j \in hits : i <= j

\* the replacement text with its $ patterns expanded: $$, $&, $-grave (the text
\* before the match) and $' (the text after it); Grave is the grave-accent character
Grave == "GRAVE"

RECURSIVE ExpandReplacement(_, _, _, _)
ExpandReplacement(rep, matched, before, after) ==
    IF rep = <<>> THEN <<>>
    ELSE IF rep[1] = "$" /\ Len(rep) >= 2 /\ rep[2] \in {"$", "&", Grave, "'"}
         THEN (CASE rep[2] = "$" -> <<"$">>
                 [] rep[2] = "&" -> matched
                 [] rep[2] = Grave -> before
                 [] OTHER -> after)
              \o ExpandReplacement(SubSeq(rep, 3, Len(rep)), matched, before, after)
         ELSE <<rep[1]>> \o ExpandReplacement(Tail(rep), matched, before, after)

Replace(s, pat, rep) ==
    LET i == IndexOf(s, pat)
    IN IF i = 0 THEN s
       ELSE LET before == SubSeq(s, 1, i - 1)
                after == SubSeq(s, i + Len(pat), Len(s))
            IN before \o ExpandReplacement(rep, pat, before, after) \o after

\* the template literal {${paramName}}: the placeholder text of a parameter
Placeholder(name) == <<"{", name, "}">>

-----------------------------------------------------------------------------
(* URLSearchParams: a sequence of [key, value] entries *)

Entry(name, text) == [key |-> name, value |-> text]

QueryAppend(q, name, text) == Append(q, Entry(name, text))

\* set: overwrite the first entry of that key and drop its other entries,
\* or append when the key has no entry
QuerySet(q, name, text) ==
    LET hits == {i \in 1..Len(q) : q[i].key = name}
    IN IF hits = {} THEN Append(q, Entry(name, text))
       ELSE LET first == CHOOSE i \in hits : \A j \in hits : i <= j
                keep == {i \in 1..Len(q) : i = first \/ q[i].key # name}
                RECURSIVE Build(_)
                Build(i) ==
                    IF i > Len(q) THEN <<>>
                    ELSE (IF i \in keep
                          THEN <<IF i = first THEN Entry(name, text) ELSE q[i]>>
                          ELSE <<>>) \o Build(i + 1)
            IN Build(1)

-----------------------------------------------------------------------------
(* wrapPath: the schema of a tool *)

\* the zod rule of a declared parameter type (switch on param.schema.type)
Rule(type) ==
    CASE type = "string" -> "z.string().optional()"
      [] type = "number" -> "z.number().optional()"
      [] type = "boolean" -> "z.boolean().optional()"
      [] type = "array" -> "z.array(z.string()).optional()"
      [] type = "object" -> "z.object({}).optional()"
      [] OTHER -> "z.string().optional()"

\* parameters.filter(p => p.in != "header").reduce(...): a later parameter of
\* the same name overwrites an earlier one
RECURSIVE ParamSchemaFrom(_, _)
ParamSchemaFrom(acc, parameters) ==
    IF parameters = <<>> THEN acc
    ELSE LET p == Head(parameters)
         IN ParamSchemaFrom(
                IF p.in # "header"
                THEN [n \in DOMAIN acc \cup {p.name} |->
                         IF n = p.name THEN Rule(p.type) ELSE acc[n]]
                ELSE acc,
                Tail(parameters))

EmptyObject == [n \in {} |-> "z.string().optional()"]

ParamSchema(parameters) == ParamSchemaFrom(EmptyObject, parameters)

AdminBodyCatalog ==
    [title |-> "z.string().optional()",
     description |-> "z.string().optional()",
     subtitle |-> "z.string().optional()",
     handle |-> "z.string().optional()",
     status |-> "z.string().optional()",
     sku |-> "z.string().optional()",
     options |-> "z.unknown().optional()",
     variants |-> "z.unknown().optional()",
     images |-> "z.unknown().optional()",
     prices |-> "z.unknown().optional()",
     metadata |-> "z.unknown().optional()",
     tags |-> "z.unknown().optional()",
     type |-> "z.unknown().optional()",
     collection_id |-> "z.string().optional()",
     categories |-> "z.unknown().optional()",
     manage_inventory |-> "z.boolean().optional()",
     allow_backorder |-> "z.boolean().optional()",
     weight |-> "z.unknown().optional()",
     length |-> "z.unknown().optional()",
     height |-> "z.unknown().optional()",
     width |-> "z.unknown().optional()",
     hs_code |-> "z.unknown().optional()",
     mid_code |-> "z.unknown().optional()",
     material |-> "z.unknown().optional()",
     origin_country |-> "z.unknown().optional()",
     discountable |-> "z.unknown().optional()",
     is_giftcard |-> "z.unknown().optional()",
     thumbnail |-> "z.unknown().optional()",
     external_id |-> "z.unknown().optional()"]

StoreBodyCatalog ==
    [email |-> "z.string().optional()",
     password |-> "z.string().optional()",
     first_name |-> "z.string().optional()",
     last_name |-> "z.string().optional()",
     phone |-> "z.string().optional()",
     company |-> "z.string().optional()",
     address_1 |-> "z.string().optional()",
     address_2 |-> "z.string().optional()",
     city |-> "z.string().optional()",
     country_code |-> "z.string().optional()",
     province |-> "z.string().optional()",
     postal_code |-> "z.string().optional()",
     metadata |-> "z.record(z.unknown()).optional()",
     items |-> "z.unknown().optional()",
     shipping_address |-> "z.unknown().optional()",
     billing_address |-> "z.unknown().optional()",
     context |-> "z.unknown().optional()",
     region_id |-> "z.unknown().optional()"]

BodyCatalog(srf) == IF srf = "admin" THEN AdminBodyCatalog ELSE StoreBodyCatalog

\* const bodySchema = method !== "get" ? {...} : {}
BodySchema(srf, method) == IF method # "get" THEN BodyCatalog(srf) ELSE EmptyObject

\* the object spread {...first, ...second}: a key of second overwrites first's
Spread(first, second) ==
    [n \in DOMAIN first \cup DOMAIN second |->
        IF n \in DOMAIN second THEN second[n] ELSE first[n]]

\* variant: {...bodySchema, ...paramSchema}
SpreadParamLast(ps, bs) == Spread(bs, ps)

\* inputSchema: {...paramSchema, ...bodySchema}
InputSchema(ps, bs) == Spread(ps, bs)

-----------------------------------------------------------------------------
(* wrapPath: the compiled tool *)

Methods == <<"get", "post", "delete">>

\* the if / else-if chain on "get" in refFunction, "post" in ..., "delete" in ...
SelectedKey(refFunction) ==
    IF "get" \in DOMAIN refFunction THEN "get"
    ELSE IF "post" \in DOMAIN refFunction THEN "post"
    ELSE IF "delete" \in DOMAIN refFunction THEN "delete"
    ELSE "none"

\* !name is false: the descriptor has an operationId and it is not ""
HasName(refFunction) ==
    LET key == SelectedKey(refFunction)
    IN /\ key # "none"
       /\ "operationId" \in DOMAIN refFunction[key]
       /\ refFunction[key].operationId # ""

\* whether `parameters` is an array after the branch that assigned it:
\* get keeps undefined (store) or takes "" (admin) when the descriptor has no
\* parameters; post and delete fall back to []
ParametersIsArray(srf, refFunction) ==
    LET key == SelectedKey(refFunction)
    IN IF key = "get" THEN "parameters" \in DOMAIN refFunction[key] ELSE TRUE

ParametersOf(refFunction) ==
    LET d == refFunction[SelectedKey(refFunction)]
    IN IF "parameters" \in DOMAIN d THEN d.parameters ELSE <<>>

\* the description property of the tool: <<>> stands for undefined
ToolDescription(srf, d) ==
    LET given == IF "description" \in DOMAIN d THEN d.description ELSE "undefined"
    IN IF srf = "admin" THEN <<"This tool helps store administors. " \o given>>
       ELSE IF "description" \in DOMAIN d THEN <<d.description>> ELSE <<>>

ToolName(srf, operationId) ==
    IF srf = "admin" THEN "Admin" \o operationId ELSE operationId

Threw(kind) == [threw |-> TRUE, error |-> kind, tool |-> <<>>]

\* the callback wrapPath hands to defineTool: throws, or returns the tool with
\* the variables its handler closes over (refPath, method, parameters)
WrapPathCallback(srf, refPath, refFunction) ==
    IF ~HasName(refFunction) THEN Threw("Error: No name found for path")
    ELSE IF ~ParametersIsArray(srf, refFunction) THEN Threw("TypeError")
    ELSE LET key == SelectedKey(refFunction)
             d == refFunction[key]
             parameters == ParametersOf(refFunction)
         IN [threw |-> FALSE, error |-> "",
             tool |-> <<[name |-> ToolName(srf, d.operationId),
                         description |-> ToolDescription(srf, d),
                         inputSchema |-> InputSchema(ParamSchema(parameters),
                                                     BodySchema(srf, key)),
                         refPath |-> refPath,
                         method |-> key,
                         parameters |-> parameters]>>]

\* utils/define-tools defineTool: runs the callback at once, so what the
\* callback throws is thrown by wrapPath, and hands the tool back
defineTool(outcome) == outcome

WrapPath(srf, refPath, refFunction) ==
    defineTool(WrapPathCallback(srf, refPath, refFunction))

-----------------------------------------------------------------------------
(* defineTools *)

\* variant: the operationId test is left out
QualifiesAnyDescriptor(ops, m) == m \in DOMAIN ops

\* anyRef.get && anyRef.get.operationId (and the same for post, delete)
Qualifies(ops, m) ==
    /\ m \in DOMAIN ops
    /\ "operationId" \in DOMAIN ops[m]
    /\ ops[m].operationId # ""

\* { get: anyRef.get }: the descriptor alone under its method key
Single(ops, m) == [k \in {m} |-> ops[m]]

\* the loop over Object.entries(paths) and the three ifs of its body; a throw
\* of wrapPath leaves defineTools without a return value
RECURSIVE DefineToolsFrom(_, _, _, _, _)
DefineToolsFrom(srf, paths, r, mi, acc) ==
    IF r > Len(paths) THEN [threw |-> FALSE, error |-> "", tools |-> acc]
    ELSE IF mi > Len(Methods) THEN DefineToolsFrom(srf, paths, r + 1, 1, acc)
    ELSE IF Qualifies(paths[r].ops, Methods[mi])
         THEN LET w == WrapPath(srf, paths[r].path,
                                Single(paths[r].ops, Methods[mi]))
              IN IF w.threw
                 THEN [threw |-> TRUE, error |-> w.error, tools |-> <<>>]
                 ELSE DefineToolsFrom(srf, paths, r, mi + 1,
                                      Append(acc, w.tool[1]))
         ELSE DefineToolsFrom(srf, paths, r, mi + 1, acc)

DefineTools(srf, paths) == DefineToolsFrom(srf, paths, 1, 1, <<>>)

-----------------------------------------------------------------------------
(* the handler of a compiled tool *)

RECURSIVE NamesIn(_, _)
NamesIn(parameters, loc) ==
    IF parameters = <<>> THEN <<>>
    ELSE (IF Head(parameters).in = loc THEN <<Head(parameters).name>> ELSE <<>>)
         \o NamesIn(Tail(parameters), loc)

QueryParamNames(parameters) == NamesIn(parameters, "query")

PathParamNames(parameters) == NamesIn(parameters, "path")

Range(seq) == {seq[i] : i \in DOMAIN seq}

\* the loop over pathParamNames: one replace per parameter with a value, each
\* applied to the path the earlier ones produced
RECURSIVE FinalPath(_, _, _)
FinalPath(path, pathParamNames, input) ==
    IF pathParamNames = <<>> THEN path
    ELSE LET value == Get(input, Head(pathParamNames))
         IN FinalPath(
                IF ~IsNullish(value)
                THEN Replace(path, Placeholder(Head(pathParamNames)), String(value))
                ELSE path,
                Tail(pathParamNames), input)

\* for (const v of value) query.append(name, String(v))
RECURSIVE AppendAll(_, _, _)
AppendAll(q, name, es) ==
    IF es = <<>> THEN q
    ELSE AppendAll(QueryAppend(q, name, String(es[1])), name, Tail(es))

\* variant: query.set in place of query.append for the elements of an array
SetLastElement(q, name, value) ==
    IF value.k = "array"
    THEN (IF value.e = <<>> THEN q
          ELSE QuerySet(q, name, String(value.e[Len(value.e)])))
    ELSE QuerySet(q, name, String(value))

\* the body of the loop over queryParamNames for a value that is not nullish
QueryPut(q, name, value) ==
    IF value.k = "array" THEN AppendAll(q, name, value.e)
    ELSE QuerySet(q, name, String(value))

RECURSIVE BuildQueryFrom(_, _, _)
BuildQueryFrom(q, queryParamNames, input) ==
    IF queryParamNames = <<>> THEN q
    ELSE LET value == Get(input, Head(queryParamNames))
         IN BuildQueryFrom(
                IF IsNullish(value) THEN q
                ELSE QueryPut(q, Head(queryParamNames), value),
                Tail(queryParamNames), input)

BuildQuery(queryParamNames, input) == BuildQueryFrom(<<>>, queryParamNames, input)

\* variant: only the query parameter names are left out of the body
BuildBodyKeepingPath(method, input, queryParamNames, pathParamNames) ==
    IF method = "get" THEN [key \in {} |-> Undef]
    ELSE [key \in DOMAIN input \ Range(queryParamNames) |-> input[key]]

\* const body = {}; for method !== "get", every own key of the input that is
\* neither a query nor a path parameter name, with its value
BuildBody(method, input, queryParamNames, pathParamNames) ==
    IF method = "get" THEN [key \in {} |-> Undef]
    ELSE [key \in DOMAIN input \ (Range(queryParamNames) \cup Range(pathParamNames))
             |-> input[key]]

\* variant: the body is attached whatever the method
BodyFieldAlways(method, body) == [f \in {"body"} |-> body]

\* ...(method === "get" ? {} : { body })
BodyField(method, body) ==
    IF method = "get" THEN [f \in {} |-> body] ELSE [f \in {"body"} |-> body]

\* variant: the admin handler reads the environment key as the store one does
AuthorizationFromEnv(srf, token, key) == <<"Bearer ">> \o String(key)

\* Authorization: admin reads this.adminToken, store reads
\* process.env.PUBLISHABLE_KEY, each through a template literal
Authorization(srf, token, key) ==
    <<"Bearer ">> \o (IF srf = "admin" THEN token ELSE String(key))

Headers(srf, token, key) ==
    [h \in {"Content-Type", "Accept", "Authorization"} |->
        IF h = "Authorization" THEN Authorization(srf, token, key)
        ELSE <<"application/json">>]

\* what the handler passes to sdk.client.fetch: the path and the options
Handler(srf, closure, input, token, key) ==
    LET queryParamNames == QueryParamNames(closure.parameters)
        pathParamNames == PathParamNames(closure.parameters)
        body == BuildBody(closure.method, input, queryParamNames, pathParamNames)
    IN [f \in {"path", "method", "headers", "query"}
                \cup DOMAIN BodyField(closure.method, body) |->
          CASE f = "path" -> FinalPath(closure.refPath, pathParamNames, input)
            [] f = "method" -> closure.method
            [] f = "headers" -> Headers(srf, token, key)
            [] f = "query" -> BuildQuery(queryParamNames, input)
            [] OTHER -> BodyField(closure.method, body)[f]]

\* variant: the three variables live outside the callback, so every handler
\* reads what the last wrapPath call left in them
HandlerClosureShared(toolList, i) == toolList[Len(toolList)]

\* refPath, method and parameters are locals of the wrapPath call that built
\* the tool: each handler reads those of its own tool
HandlerClosure(toolList, i) == toolList[i]

-----------------------------------------------------------------------------
(* MedusaAdminService.init *)

\* this.adminToken = res.toString()
InitToken(res) == String(res)

-----------------------------------------------------------------------------
(* Catalogs and inputs the model draws from *)

Surfaces == {"admin", "store"}

Envs == {Undef, StrV(<<"pk_test">>)}

\* what sdk.auth.login resolves to: a token string or a { location } object
LoginResults == {StrV(<<"tokA">>), StrV(<<"tokB">>), ObjV}

Param(name, loc, type) == [name |-> name, in |-> loc, type |-> type]

Descriptor(operationId, parameters) ==
    [operationId |-> operationId, description |-> "An operation.",
     parameters |-> parameters]

ParamsGet ==
    <<Param("x", "path", "string"), Param("y", "path", "string"),
      Param("tags", "query", "array"), Param("q", "query", "string"),
      Param("hdr", "header", "string")>>

ParamsPost ==
    <<Param("y", "path", "string"), Param("x", "path", "string"),
      Param("q", "query", "string"), Param("hdr", "header", "string")>>

ParamsDelete ==
    <<Param("x", "path", "string"), Param("q", "query", "number")>>

ItemPath == <<"/carts/", "{", "x", "}", "/items/", "{", "y", "}">>

ItemCatalog ==
    <<[path |-> ItemPath,
       ops |-> [get |-> Descriptor("GetItem", ParamsGet),
                post |-> Descriptor("PostItem", ParamsPost),
                delete |-> Descriptor("DeleteItem", ParamsDelete)]]>>

PairCatalog ==
    <<[path |-> ItemPath,
       ops |-> [get |-> Descriptor("GetItem", ParamsGet),
                post |-> Descriptor("PostItem", ParamsPost)]]>>

\* all objects with keys among `keys` and values among `vals`
ObjectsOver(keys, vals) == UNION {[S -> vals] : S \in SUBSET keys}

A == StrV(<<"a">>)
B == StrV(<<"b">>)

Arrays == {ArrV(es) : es \in UNION {[1..n -> {A, B, Null}] : n \in 0..MaxArrLen}}

PathValues ==
    {Null, StrV(<<"42">>), NumV(<<"7">>), StrV(<<"{", "y", "}">>),
     StrV(<<"{", "x", "}">>), StrV(<<"$", "&">>), StrV(<<"$", "$">>),
     ArrV(<<A, B>>)}

QueryValues == {Null, Undef, A, NumV(<<"42">>)} \cup Arrays

BodyValues == {A, NumV(<<"7">>), Null}

Inputs ==
    ObjectsOver({"x", "y"}, PathValues)
        \cup ObjectsOver({"tags", "q"}, QueryValues)
        \cup ObjectsOver({"x", "q", "hdr", "name"}, BodyValues)

CallInputs ==
    {[x |-> StrV(<<"42">>), name |-> A],
     [y |-> NumV(<<"7">>), q |-> A, hdr |-> B]}

\* the descriptors a route may hold under one method key
FullParams ==
    <<Param("id", "path", "string"), Param("metadata", "query", "string"),
      Param("limit", "query", "integer"), Param("tags", "query", "array"),
      Param("hdr", "header", "string"), Param("flag", "query", "boolean"),
      Param("n", "query", "number"), Param("o", "query", "object")>>

OperationId(m) ==
    CASE m = "get" -> "GetProduct"
      [] m = "post" -> "PostProduct"
      [] m = "delete" -> "DeleteProduct"
      [] OTHER -> "PutProduct"

DescriptorsOf(m) ==
    {Descriptor(OperationId(m), FullParams),
     [operationId |-> OperationId(m)],
     [operationId |-> "", parameters |-> FullParams],
     [description |-> "No identifier.", parameters |-> FullParams]}

RoutePath(i) ==
    CASE i = 1 -> <<"/admin/products/", "{", "id", "}">>
      [] i = 2 -> <<"/admin/orders">>
      [] OTHER -> <<"/admin/routes/", ToString(i)>>

\* a key defineTools does not look at, present on every second route
OtherKeys(i) ==
    IF i % 2 = 0 THEN [k \in {"put"} |-> Descriptor(OperationId("put"), FullParams)]
    ELSE [k \in {} |-> Descriptor("", <<>>)]

\* the descriptors the routes of a longer catalog hold
SomeDescriptorsOf(m) ==
    CASE m = "get" -> {Descriptor(OperationId(m), FullParams),
                       [operationId |-> OperationId(m)]}
      [] m = "post" -> {Descriptor(OperationId(m), FullParams),
                        [description |-> "No identifier.", parameters |-> FullParams]}
      [] OTHER -> {Descriptor(OperationId(m), FullParams)}

\* every entry of a route: each method key absent or with one of its descriptors
OpsOver(D(_)) ==
    UNION {{f \in [S -> UNION {D(m) : m \in S}] : \A m \in S : f[m] \in D(m)} :
           S \in SUBSET Range(Methods)}

AllOps == OpsOver(DescriptorsOf)

SomeOps == OpsOver(SomeDescriptorsOf)

RECURSIVE CatalogsOfLen(_, _)
CatalogsOfLen(n, opsSet) ==
    IF n = 0 THEN {<<>>}
    ELSE {Append(c, [path |-> RoutePath(n), ops |-> Spread(ops, OtherKeys(n))]) :
            c \in CatalogsOfLen(n - 1, opsSet), ops \in opsSet}

Catalogs ==
    CatalogsOfLen(1, AllOps) \cup UNION {CatalogsOfLen(n, SomeOps) : n \in 2..MaxRoutes}

-----------------------------------------------------------------------------
(* State machine *)

NotCompiled == [threw |-> FALSE, error |-> "not called", tools |-> <<>>]

NotWrapped == [threw |-> FALSE, error |-> "not called", tool |-> <<>>]

Compiled == tools.error = ""

Fresh ==
    /\ tools = NotCompiled
    /\ wrapped = NotWrapped
    /\ adminToken = <<>>
    /\ loginPending = 0
    /\ loginReturned = <<>>
    /\ inits = 0
    /\ calls = <<>>

Init ==
    /\ surface \in Surfaces
    /\ env = Undef
    /\ catalog = PairCatalog
    /\ arg = <<>>
    /\ Fresh

InitCompile ==
    /\ surface \in Surfaces
    /\ env = Undef
    /\ catalog \in Catalogs
    /\ arg = <<>>
    /\ Fresh

InitHandler ==
    /\ surface \in Surfaces
    /\ env \in Envs
    /\ catalog = ItemCatalog
    /\ arg \in Inputs
    /\ Fresh

\* defineTools(catalog)
DefineToolsStep ==
    /\ tools' = DefineTools(surface, catalog)
    /\ UNCHANGED <<surface, env, catalog, arg, wrapped, adminToken,
                   loginPending, loginReturned, inits, calls>>

\* wrapPath(path, refFunction) called on its own with a route's whole entry
WrapPathStep ==
    \E r \in DOMAIN catalog :
        /\ wrapped' = WrapPath(surface, catalog[r].path, catalog[r].ops)
        /\ UNCHANGED <<surface, env, catalog, arg, tools, adminToken,
                       loginPending, loginReturned, inits, calls>>

\* init() up to its await of sdk.auth.login
InitStart ==
    /\ surface = "admin"
    /\ inits < MaxInits
    /\ inits' = inits + 1
    /\ loginPending' = loginPending + 1
    /\ UNCHANGED <<surface, env, catalog, arg, tools, wrapped, adminToken,
                   loginReturned, calls>>

\* login resolves and init() stores the token
LoginReturn(res) ==
    /\ loginPending > 0
    /\ loginPending' = loginPending - 1
    /\ loginReturned' = Append(loginReturned, res)
    /\ adminToken' = InitToken(res)
    /\ UNCHANGED <<surface, env, catalog, arg, tools, wrapped, inits, calls>>

\* login rejects: init() rejects without reaching the assignment
LoginReject ==
    /\ loginPending > 0
    /\ loginPending' = loginPending - 1
    /\ UNCHANGED <<surface, env, catalog, arg, tools, wrapped, adminToken,
                   loginReturned, inits, calls>>

\* the handler of tool i called with `input`: it runs to its await of
\* sdk.client.fetch, which receives the request
Invoke(i, input) ==
    /\ Compiled
    /\ i \in DOMAIN tools.tools
    /\ calls' = Append(calls,
                    [tool |-> i, input |-> input,
                     req |-> Handler(surface, HandlerClosure(tools.tools, i),
                                     input, adminToken, env),
                     seen |-> Len(loginReturned),
                     status |-> "pending"])
    /\ UNCHANGED <<surface, env, catalog, arg, tools, wrapped, adminToken,
                   loginPending, loginReturned, inits>>

\* fetch settles and the handler returns the response as it is
Return(c) ==
    /\ c \in DOMAIN calls
    /\ calls[c].status = "pending"
    /\ calls' = [calls EXCEPT ![c].status = "returned"]
    /\ UNCHANGED <<surface, env, catalog, arg, tools, wrapped, adminToken,
                   loginPending, loginReturned, inits>>

InvokeAny ==
    \E i \in DOMAIN tools.tools, input \in CallInputs :
        Len(calls) < MaxCalls /\ Invoke(i, input)

InvokeArg == \E i \in DOMAIN tools.tools : calls = <<>> /\ Invoke(i, arg)

LoginReturnAny == \E res \in LoginResults : LoginReturn(res)

ReturnAny == \E c \in DOMAIN calls : Return(c)

Next ==
    \/ DefineToolsStep
    \/ InitStart
    \/ LoginReturnAny
    \/ LoginReject
    \/ InvokeAny
    \/ ReturnAny

NextCompile == DefineToolsStep \/ WrapPathStep

NextHandler == DefineToolsStep \/ InvokeArg \/ ReturnAny

Spec == Init /\ [][Next]_vars

SpecCompile == InitCompile /\ [][NextCompile]_vars

SpecHandler == InitHandler /\ [][NextHandler]_vars

-----------------------------------------------------------------------------
(* Properties *)

Called == tools # NotCompiled

\* the identifier an entry carries under a method key, "" when it has none
IdentifierOf(ops, m) ==
    IF m \in DOMAIN ops /\ "operationId" \in DOMAIN ops[m]
    THEN ops[m].operationId ELSE ""

\* the (name, route, method) of the tools a catalog asks for: by route, then
\* get, post, delete, one for each entry with an identifier
RECURSIVE ExpectedTools(_, _, _, _)
ExpectedTools(srf, paths, r, mi) ==
    IF r > Len(paths) THEN <<>>
    ELSE IF mi > 3 THEN ExpectedTools(srf, paths, r + 1, 1)
    ELSE LET m == <<"get", "post", "delete">>[mi]
             id == IdentifierOf(paths[r].ops, m)
         IN (IF id # ""
             THEN <<[name |-> IF srf = "admin" THEN "Admin" \o id ELSE id,
                     refPath |-> paths[r].path, method |-> m]>>
             ELSE <<>>) \o ExpectedTools(srf, paths, r, mi + 1)

Signature(t) == [name |-> t.name, refPath |-> t.refPath, method |-> t.method]

\* some entry under get, post or delete has no usable identifier
SomeEntryLacksIdentifier ==
    \E r \in DOMAIN catalog :
        \E m \in {"get", "post", "delete"} :
            m \in DOMAIN catalog[r].ops /\ IdentifierOf(catalog[r].ops, m) = ""

\* C1: defineTools returns exactly one tool for each (route, method) entry
\* under get, post or delete that has a non-empty operationId and none for any
\* other entry, whether or not the descriptor declares parameters, in route
\* order and get, post, delete order, each named by its operation's identifier
\* (prefixed with Admin on the admin surface).
C1_OneToolPerIdentifiedEntry ==
    Called =>
        /\ ~tools.threw
        /\ [i \in DOMAIN tools.tools |-> Signature(tools.tools[i])]
               = ExpectedTools(surface, catalog, 1, 1)

\* the method keys wrapPath looks for before m
EarlierKeys(m) ==
    CASE m = "get" -> {}
      [] m = "post" -> {"get"}
      [] OTHER -> {"get", "post"}

\* C2 as stated: when some entry under a recognized method key has no usable
\* identifier, defineTools throws and returns no tool list.
C2_MissingIdentifierAborts ==
    (Called /\ SomeEntryLacksIdentifier) => (tools.threw /\ tools.tools = <<>>)

\* C2 amended: defineTools never raises the "No name found" error; an entry
\* without a usable identifier is skipped, so a returned list holds exactly
\* the tools of the entries that have one; the error comes only from wrapPath
\* called directly on an entry whose selected method key has no identifier.
C2_MissingIdentifierIsSkipped ==
    /\ Called =>
          /\ tools.error # "Error: No name found for path"
          /\ ~tools.threw =>
                [i \in DOMAIN tools.tools |-> Signature(tools.tools[i])]
                    = ExpectedTools(surface, catalog, 1, 1)
    /\ (wrapped.threw /\ wrapped.error = "Error: No name found for path") =>
          \E r \in DOMAIN catalog :
              \A m \in {"get", "post", "delete"} \cap DOMAIN catalog[r].ops :
                  EarlierKeys(m) \cap DOMAIN catalog[r].ops = {}
                      => IdentifierOf(catalog[r].ops, m) = ""

C2_Witness ==
    /\ Called
    /\ SomeEntryLacksIdentifier
    /\ ~tools.threw
    /\ Len(tools.tools) >= 1
    /\ Len(catalog) >= 2

ToolOf(c) == tools.tools[calls[c].tool]

DeclaredIn(c, locs) ==
    {ToolOf(c).parameters[i].name :
        i \in {j \in DOMAIN ToolOf(c).parameters : ToolOf(c).parameters[j].in \in locs}}

QueryKeys(q) == {q[i].key : i \in DOMAIN q}

BodyKeys(req) == IF "body" \in DOMAIN req THEN DOMAIN req.body ELSE {}

\* C3: a header parameter's name is not a key the parameter adds to the input
\* schema, and for every input, also one that has a key of that name, the
\* name is neither a query entry nor a body key of the request.
C3_HeaderParametersNeverForwarded ==
    \A c \in DOMAIN calls :
        \A n \in DeclaredIn(c, {"header"}) \ DeclaredIn(c, {"path", "query"}) :
            /\ n \in DOMAIN ToolOf(c).inputSchema =>
                  (ToolOf(c).method # "get" /\ n \in DOMAIN BodyCatalog(surface))
            /\ n \notin QueryKeys(calls[c].req.query)
            /\ n \notin BodyKeys(calls[c].req)

AuthorizationOf(c) == calls[c].req.headers["Authorization"]

\* C4 as stated: in every ordering of init and handler calls, each admin
\* request carries the token a login returned.
C4_EveryRequestCarriesLoginToken ==
    surface = "admin" =>
        \A c \in DOMAIN calls :
            \E j \in DOMAIN loginReturned :
                AuthorizationOf(c) = <<"Bearer ">> \o String(loginReturned[j])

\* C4 amended: only init writes the stored token, which is the empty string
\* until a login has returned and then the string form of the latest result;
\* each admin request carries the token stored when it was dispatched, so a
\* handler called before init completes sends the empty token.
C4_RequestCarriesStoredToken ==
    surface = "admin" =>
        /\ adminToken = IF loginReturned = <<>> THEN <<>>
                        ELSE String(loginReturned[Len(loginReturned)])
        /\ \A c \in DOMAIN calls :
              AuthorizationOf(c) =
                  <<"Bearer ">> \o (IF calls[c].seen = 0 THEN <<>>
                                    ELSE String(loginReturned[calls[c].seen]))

C4_Witness ==
    /\ surface = "admin"
    /\ \E c, d \in DOMAIN calls :
          /\ calls[c].seen = 0
          /\ AuthorizationOf(c) = <<"Bearer ">>
          /\ calls[d].seen = 1
          /\ AuthorizationOf(d) = <<"Bearer ", "tokA">>

\* C5: the request of a get tool has no body field, whatever input keys are
\* not declared path or query parameters.
C5_GetHasNoBody ==
    \A c \in DOMAIN calls :
        ToolOf(c).method = "get" => "body" \notin DOMAIN calls[c].req

C5_Witness ==
    \E c \in DOMAIN calls :
        /\ ToolOf(c).method = "get"
        /\ DOMAIN calls[c].input \ DeclaredIn(c, {"path", "query"}) # {}
        /\ calls[c].status = "returned"

RECURSIVE Substituted(_, _, _)
Substituted(template, names, input) ==
    IF template = <<>> THEN <<>>
    ELSE IF /\ Len(template) >= 3
            /\ template[1] = "{"
            /\ template[3] = "}"
            /\ template[2] \in names
            /\ ~IsNullish(Get(input, template[2]))
         THEN String(Get(input, template[2]))
                  \o Substituted(SubSeq(template, 4, Len(template)), names, input)
         ELSE <<template[1]>> \o Substituted(Tail(template), names, input)

\* C7: the dispatched path is the template with the placeholder of each path
\* parameter that has a non-null value replaced by the value's string form
\* and every other placeholder left as it is, whatever the other values and
\* the order of declaration.
C7_PathIsSubstitutedTemplate ==
    \A c \in DOMAIN calls :
        calls[c].req.path =
            Substituted(ToolOf(c).refPath, DeclaredIn(c, {"path"}), calls[c].input)

\* the values of the entries of q under key n, in order
RECURSIVE ValuesUnder(_, _)
ValuesUnder(q, n) ==
    IF q = <<>> THEN <<>>
    ELSE (IF q[1].key = n THEN <<q[1].value>> ELSE <<>>) \o ValuesUnder(Tail(q), n)

\* C8: a declared query parameter gives no entry for null or undefined, one
\* entry per element in order (duplicates kept) for a sequence, and one entry
\* with the string form otherwise; no other key has an entry.
C8_QueryEntries ==
    \A c \in DOMAIN calls :
        /\ QueryKeys(calls[c].req.query) \subseteq DeclaredIn(c, {"query"})
        /\ \A n \in DeclaredIn(c, {"query"}) :
              LET value == Get(calls[c].input, n)
              IN ValuesUnder(calls[c].req.query, n) =
                     IF IsNullish(value) THEN <<>>
                     ELSE IF value.k = "array"
                          THEN [i \in DOMAIN value.e |-> String(value.e[i])]
                          ELSE <<String(value)>>

C8_Witness ==
    \E c \in DOMAIN calls :
        /\ Get(calls[c].input, "tags") = ArrV(<<B, A>>)
        /\ Get(calls[c].input, "q") = Null
        /\ calls[c].req.query = <<Entry("tags", <<"b">>), Entry("tags", <<"a">>)>>

NonHeader(t) ==
    {t.parameters[i] : i \in {j \in DOMAIN t.parameters : t.parameters[j].in # "header"}}

\* C9: every non-header parameter is a key of the input schema; for post and
\* delete a parameter named like a body-catalog field has the catalog's rule,
\* and for get no catalog field is added and the parameter's rule stands.
C9_SchemaKeysAndPrecedence ==
    \A i \in DOMAIN tools.tools :
        LET t == tools.tools[i]
        IN /\ \A p \in NonHeader(t) :
                 /\ p.name \in DOMAIN t.inputSchema
                 /\ t.inputSchema[p.name] =
                        IF t.method # "get" /\ p.name \in DOMAIN BodyCatalog(surface)
                        THEN BodyCatalog(surface)[p.name]
                        ELSE Rule(p.type)
           /\ t.method = "get" =>
                 DOMAIN t.inputSchema = {p.name : p \in NonHeader(t)}

C9_Witness ==
    /\ surface = "admin"
    /\ \E i, j \in DOMAIN tools.tools :
          /\ tools.tools[i].method = "get"
          /\ tools.tools[i].inputSchema["metadata"] = "z.string().optional()"
          /\ tools.tools[j].method = "post"
          /\ Param("metadata", "query", "string") \in NonHeader(tools.tools[j])
          /\ tools.tools[j].inputSchema["metadata"] = "z.unknown().optional()"

\* what a call of tool t with input inp must dispatch
Determined(t, inp, req) ==
    LET q == QueryParamNames(t.parameters)
        p == PathParamNames(t.parameters)
    IN /\ req.method = t.method
       /\ req.path = FinalPath(t.refPath, p, inp)
       /\ req.query = BuildQuery(q, inp)
       /\ IF t.method = "get" THEN "body" \notin DOMAIN req
          ELSE "body" \in DOMAIN req /\ req.body = BuildBody(t.method, inp, q, p)

C10_Step ==
    calls' # calls =>
        /\ catalog' = catalog
        /\ tools' = tools
        /\ adminToken' = adminToken
        /\ \A c \in DOMAIN calls :
              /\ c \in DOMAIN calls'
              /\ calls'[c].tool = calls[c].tool
              /\ calls'[c].input = calls[c].input
              /\ calls'[c].req = calls[c].req
        /\ \A c \in DOMAIN calls' \ DOMAIN calls :
              Determined(tools.tools[calls'[c].tool], calls'[c].input, calls'[c].req)

\* C10: in every interleaving of handler calls, a call's path, method, query
\* and body follow from its own tool and its own input alone, and no handler
\* step changes the catalog, the compiled tools, the admin token or the
\* request of another call.
C10_CallsAreIndependent == [][C10_Step]_vars

C10_Witness ==
    \E c, d \in DOMAIN calls :
        /\ calls[c].tool # calls[d].tool
        /\ calls[c].status = "pending"
        /\ calls[d].status = "pending"
        /\ calls[c].input # calls[d].input

=============================================================================
